---- MODULE Spec2Model ----
(***************************************************************************)
(* turbo-tosec: the scan command of tosec_importer.py (resume planning,   *)
(* import loop, flush_buffer) and the ImportSession of session.py.        *)
(***************************************************************************)
EXTENDS Integers, Sequences, FiniteSets, TLC

\* ------------------------------------------------------------------ bounds
MaxRecs == 2        \* rom rows one DAT file can hold
MaxRuns == 2        \* invocations of the scan command over the same store
MaxFailures == 1    \* storage failures injected over a behaviour

\* Values of --batch-size and --workers (1: serial loop, 2: pool); one
\* behaviour uses the same two values on every invocation.
BatchSizes == {1, 3}
WorkerCounts == {1, 2}
Versions == {"TOSEC-v2023-08-15", "TOSEC-v2024-01-01"}
Answers == {"y", "r", "s", ""}   \* lower-cased replies to input()

\* ------------------------------------------------------------------ inputs
\* Paths, as their components.  Two of them share a base name in different
\* directories.
Paths == { <<"amiga", "x.dat">>, <<"amiga", "y.dat">>, <<"c64", "x.dat">> }

\* What get_dat_files can return for the input directory, in os.walk order.
DirectoryScans ==
    { << <<"amiga", "x.dat">>, <<"amiga", "y.dat">> >>,
      << <<"amiga", "x.dat">>, <<"c64", "x.dat">> >> }

basename(p) == p[Len(p)]
dirname(p) == SubSeq(p, 1, Len(p) - 1)
getsize(p) == IF p = <<"amiga", "x.dat">> THEN 1
              ELSE IF p = <<"amiga", "y.dat">> THEN 2 ELSE 4

\* What a file holds: a malformed document, or a well-formed XML document
\* with that many rom elements.
Contents == {[well_formed |-> FALSE, roms |-> 0]}
            \cup {[well_formed |-> TRUE, roms |-> n] : n \in 0..MaxRecs}

VARIABLES
    all_dat_files,    \* the discovered files, fixed over a behaviour
    content,          \* [Files -> Contents], fixed over a behaviour
    \* the store (persists over runs)
    db_exists, roms, processed_files, db_metadata,
    \* arguments and locals of one run
    runs, args_resume, args_force_new, args_batch_size, args_workers,
    current_version, answer, prompt, processed_count, resume_mode,
    files_to_process, status, cur, buffer, tomark, final,
    total_roms, error_count, log_count, pbar_n, pbar_total,
    pc, result, failures, history,
    returned,         \* what ImportSession.run gave its caller
    caught,           \* the message of the last exception the session caught
    \* one call of parse_dat_file
    file_path,        \* its argument
    file,             \* what is on disk at that path
    parsed,           \* its outcome: returned rows, raised, logged
    ppc,              \* "off", "call" or "returned"
    \* the progress-monitor thread of a run
    stop_monitor,     \* the Event stop_monitor is set
    monitor,          \* "none", "running" or "ended"
    refreshed         \* its last pbar.refresh(): "never", "running", "returned"

vars == << all_dat_files, content, db_exists, roms, processed_files, db_metadata,
           runs, args_resume, args_force_new, args_batch_size, args_workers,
           current_version, answer, prompt, processed_count, resume_mode,
           files_to_process, status, cur, buffer, tomark, final,
           total_roms, error_count, log_count, pbar_n, pbar_total,
           pc, result, failures, history, returned, caught,
           file_path, file, parsed, ppc, stop_monitor, monitor, refreshed >>

ParserVars == << file_path, file, parsed, ppc >>

\* No call of parse_dat_file is being followed.
ParserIdle ==
    /\ file_path = << >>
    /\ file = [kind |-> "none"]
    /\ parsed = [raised |-> FALSE, logged |-> 0, rows |-> << >>]
    /\ ppc = "off"

MonitorVars == << stop_monitor, monitor, refreshed >>

\* No monitor thread has been started.
MonitorIdle ==
    /\ stop_monitor = FALSE
    /\ monitor = "none"
    /\ refreshed = "never"

\* ------------------------------------------------------------------ helpers
Range(s) == {s[i] : i \in 1..Len(s)}

Files == Range(all_dat_files)

RECURSIVE SumSizes(_)
SumSizes(S) == IF S = {} THEN 0
               ELSE LET p == CHOOSE q \in S : TRUE
                    IN getsize(p) + SumSizes(S \ {p})

\* A row of the roms table: (dat_filename, ..., rom columns, ..., system).
Row(p, i) == [dat_filename |-> basename(p),
              system |-> basename(dirname(p)),
              rom |-> i]

RowUniverse == {Row(p, i) : p \in Paths, i \in 1..MaxRecs}

ParseErrorMsg == <<"mismatched", "tag">>

\* parse_xml_dat_file: ET.parse raises on a malformed document, otherwise one
\* row per rom element, in document order.
parse_xml_dat_file(p) ==
    IF ~content[p].well_formed
    THEN [raised |-> TRUE, msg |-> ParseErrorMsg, rows |-> << >>]
    ELSE [raised |-> FALSE, msg |-> << >>,
          rows |-> [i \in 1..content[p].roms |-> Row(p, i)]]

parse_dat_file(p) == parse_xml_dat_file(p)

\* The empty roms table, and the table after an executemany of a row list.
NoRoms == [r \in RowUniverse |-> 0]

Occurrences(rows, r) == Cardinality({i \in 1..Len(rows) : rows[i] = r})

\* Variant: only the first row of the list goes in.
executemany_FirstRow(table, rows) ==
    [r \in RowUniverse |->
        table[r] + Occurrences(SubSeq(rows, 1, IF rows = << >> THEN 0 ELSE 1), r)]

executemany(table, rows) ==
    [r \in RowUniverse |-> table[r] + Occurrences(rows, r)]

\* Variant: every file of the work list is marked, not the files of the batch.
unique_files_AllWork(rows) ==
    {basename(files_to_process[i]) : i \in 1..Len(files_to_process)}

\* flush_buffer: the distinct dat_filename values of the buffered rows.
unique_files(rows) == {rows[i].dat_filename : i \in 1..Len(rows)}

StoredRows == {r \in RowUniverse : roms[r] > 0}

\* str.lower(), word by word.
LowerWord(w) ==
    CASE w = "There" -> "there"
      [] w = "Not" -> "not"
      [] w = "Read-only" -> "read-only"
      [] w = "No" -> "no"
      [] w = "Constraint" -> "constraint"
      [] w = "Error" -> "error"
      [] OTHER -> w

lower(msg) == [i \in 1..Len(msg) |-> LowerWord(msg[i])]

\* sub in msg
Contains(msg, sub) ==
    \E i \in 0..(Len(msg) - Len(sub)) : SubSeq(msg, i + 1, i + Len(sub)) = sub

\* ------------------------------------------------------------ DAT parsers
MaxGames == 2       \* game elements or game blocks of one parsed file
MaxRoms == 2        \* rom elements or rom blocks of one game

\* Python values of a row.  A str is the sequence of its tokens.
PyStr(s) == [type |-> "str", v |-> s]
PyInt(n) == [type |-> "int", v |-> n]
PyNone == [type |-> "NoneType"]

\* File names, as tokens; " - " is the separator the platform is cut at.
FileNames ==
    { <<"Commodore 64", " - ", "Games", " - ", "T.dat">>,
      <<"Amiga.dat">>,
      <<" - ", "x.dat">> }

\* dat_filename.split(' - ')[0]
split_first(s) ==
    LET seps == {i \in 1..Len(s) : s[i] = " - "}
    IN  IF seps = {} THEN s
        ELSE SubSeq(s, 1, (CHOOSE i \in seps : \A j \in seps : i <= j) - 1)

GameNames == <<"Test Game (1986)", "Game B", "Game C", "Game D">>
RomNames == <<"a.tap", "b.tap", "c.tap", "d.tap">>
RomAttrs == {"name", "size", "crc", "md5", "sha1", "status"}

\* The rom counts of the games of one file.
RomCounts == UNION {[1..n -> 0..MaxRoms] : n \in 0..MaxGames}

\* A rom element: its attributes, all but the missing ones.
XmlRom(g, r, missing) ==
    [a \in RomAttrs \ missing |->
        CASE a = "name" -> PyStr(<<GameNames[g], RomNames[r]>>)
          [] a = "size" -> PyStr(<<"100">>)
          [] a = "status" -> PyStr(<<"baddump">>)
          [] OTHER -> PyStr(<<"1a2b">>)]

\* A game element: its name attribute, its description child (None when
\* there is none) and its rom children.
XmlGame(g, m, missing, has_desc) ==
    [name |-> PyStr(<<GameNames[g]>>),
     description |-> IF has_desc THEN PyStr(<<"About", GameNames[g]>>)
                     ELSE PyNone,
     roms |-> [r \in 1..m |-> XmlRom(g, r, missing)]]

\* Files of the XML dialect: well-formed documents, and a malformed one.
XmlFiles ==
    { [kind |-> "xml", opens_head |-> TRUE, opens |-> TRUE,
       well_formed |-> TRUE, head |-> <<"<?xml", " ", "<datafile>">>,
       games |-> [g \in 1..Len(ms) |-> XmlGame(g, ms[g], missing, d)]] :
          ms \in RomCounts, missing \in SUBSET {"size", "status"},
          d \in BOOLEAN }
    \cup { [kind |-> "xml", opens_head |-> TRUE, opens |-> TRUE,
            well_formed |-> FALSE, head |-> <<"<?xml", " ", "<datafile>">>,
            games |-> << >>] }

RECURSIVE Flatten(_)
Flatten(ss) == IF ss = << >> THEN << >> ELSE Head(ss) \o Flatten(Tail(ss))

Raised == [raised |-> TRUE, logged |-> 0, rows |-> << >>]
Returned(rows, logged) == [raised |-> FALSE, logged |-> logged, rows |-> rows]

\* rom.get(key) and rom.get(key, default)
get(attrs, key, default) ==
    IF key \in DOMAIN attrs THEN attrs[key] ELSE default

\* Variant: only the first rom of a game gives a row.
XmlGameRows_FirstRomOnly(path, game) ==
    [r \in 1..(IF Len(game.roms) = 0 THEN 0 ELSE 1) |->
        [dat_filename |-> PyStr(basename(path)),
         platform |-> PyStr(split_first(basename(path))),
         game_name |-> game.name,
         description |-> IF game.description # PyNone
                         THEN game.description ELSE PyStr(<< >>),
         rom_name |-> get(game.roms[r], "name", PyNone),
         size |-> get(game.roms[r], "size", PyNone),
         crc |-> get(game.roms[r], "crc", PyNone),
         md5 |-> get(game.roms[r], "md5", PyNone),
         sha1 |-> get(game.roms[r], "sha1", PyNone),
         status |-> get(game.roms[r], "status", PyStr(<<"good">>)),
         system |-> PyStr(<<basename(dirname(path))>>)]]

\* The rows of one game element, in document order.
XmlGameRows(path, game) ==
    [r \in 1..Len(game.roms) |->
        [dat_filename |-> PyStr(basename(path)),
         platform |-> PyStr(split_first(basename(path))),
         game_name |-> game.name,
         description |-> IF game.description # PyNone
                         THEN game.description ELSE PyStr(<< >>),
         rom_name |-> get(game.roms[r], "name", PyNone),
         size |-> get(game.roms[r], "size", PyNone),
         crc |-> get(game.roms[r], "crc", PyNone),
         md5 |-> get(game.roms[r], "md5", PyNone),
         sha1 |-> get(game.roms[r], "sha1", PyNone),
         status |-> get(game.roms[r], "status", PyStr(<<"good">>)),
         system |-> PyStr(<<basename(dirname(path))>>)]]

\* parse_xml_dat_file on a file as it is on disk: ET.parse raises when the
\* file cannot be opened or is not a well-formed XML document; otherwise one
\* row per rom of every game, game after game.
parse_xml_dat(path, f) ==
    IF ~f.opens \/ f.kind # "xml" \/ ~f.well_formed
    THEN Raised
    ELSE Returned(Flatten([g \in 1..Len(f.games) |->
                              XmlGameRows(path, f.games[g])]), 0)

\* The legacy (CMP) dialect.  The text of a file is the sequence of its
\* tokens: key words, parentheses, quotes, white space, and the atoms of
\* quoted strings and values.
Ws == " "
Quote == "\""
CmpGameNames == <<"Elite", "Paradroid", "Uridium", "Zaxxon">>
Digits == {"100"}
HexDigits == {"1a2b", "100"}
RomVariants == {"full", "no_name", "no_size", "paren_name"}
DescVariants == {"none", "plain", "parens"}

\* int(s) of a match of \d+
int(s) == CASE s = "100" -> 100

CmpHeader ==
    <<"clrmamepro", Ws, "(", Ws, "name", Ws, Quote, "TOSEC", Quote, Ws, ")", Ws>>

CmpRomName(g, r, romv) ==
    IF romv = "paren_name"
    THEN <<Quote, CmpGameNames[g], "(", "Side A", ")", RomNames[r], Quote>>
    ELSE <<Quote, CmpGameNames[g], RomNames[r], Quote>>

\* rom ( name "..." size 100 crc 1a2b )
CmpRom(g, r, romv) ==
    <<"rom", Ws, "(", Ws>>
    \o (IF romv = "no_name" THEN << >>
        ELSE <<"name", Ws>> \o CmpRomName(g, r, romv) \o <<Ws>>)
    \o (IF romv = "no_size" THEN << >> ELSE <<"size", Ws, "100", Ws>>)
    \o <<"crc", Ws, "1a2b", Ws, ")", Ws>>

CmpDescription(g, descv) ==
    CASE descv = "none" -> << >>
      [] descv = "plain" -> <<"description", Ws, Quote, "About", Quote, Ws>>
      [] descv = "parens" ->
            <<"description", Ws, Quote, CmpGameNames[g],
              "(", "1986", "(", "v2", ")", ")", "(", "Firebird", ")", Quote, Ws>>

\* game ( name "..." description "..." rom ( ... ) ... )
\* The variant romv shapes the first rom of the game; a block that is not
\* closed lacks its last parenthesis.
CmpGame(g, m, romv, descv, closed) ==
    <<"game", Ws, "(", Ws, "name", Ws, Quote, CmpGameNames[g], Quote, Ws>>
    \o CmpDescription(g, descv)
    \o Flatten([r \in 1..m |-> CmpRom(g, r, IF r = 1 THEN romv ELSE "full")])
    \o (IF closed THEN <<")">> ELSE << >>) \o <<Ws>>

\* The text of a file with the games ms, of which game trunc (if any) is
\* truncated.
CmpText(ms, trunc, romv, descv) ==
    CmpHeader \o Flatten([g \in 1..Len(ms) |->
                             CmpGame(g, ms[g], romv, descv, g # trunc)])

\* Files of the legacy dialect, each with the shape its text was written
\* from.  A file can be impossible to open when its head is read for
\* detection (opens_head) and when it is parsed (opens).
CmpShapes ==
    { [ms |-> ms, trunc |-> trunc, romv |-> romv, descv |-> descv] :
          ms \in RomCounts, trunc \in 0..MaxGames,
          romv \in RomVariants, descv \in DescVariants }

CmpFile(shape, opens_head, opens) ==
    [kind |-> "cmp", opens_head |-> opens_head, opens |-> opens,
     head |-> CmpHeader, shape |-> shape,
     text |-> CmpText(shape.ms, shape.trunc, shape.romv, shape.descv)]

CmpFiles ==
    { CmpFile(s, TRUE, TRUE) : s \in {s \in CmpShapes : s.trunc <= Len(s.ms)} }
    \cup { CmpFile([ms |-> <<1>>, trunc |-> 0, romv |-> "full",
                    descv |-> "plain"], oh, FALSE) : oh \in BOOLEAN }

\* "clrmamepro" in head.lower(), False when the head cannot be read.
is_cmp_file(f) == f.opens_head /\ Contains(lower(f.head), <<"clrmamepro">>)

Least(S) == CHOOSE i \in S : \A j \in S : i <= j

\* The elements of a set of numbers, ascending.
RECURSIVE Ascending(_)
Ascending(S) ==
    IF S = {} THEN << >> ELSE <<Least(S)>> \o Ascending(S \ {Least(S)})

\* \s* from index i: the index of the first token that is not white space.
RECURSIVE SkipWs(_, _)
SkipWs(t, i) == IF i <= Len(t) /\ t[i] = Ws THEN SkipWs(t, i + 1) ELSE i

\* The last index in s..e whose token is not white space, s - 1 if none.
RECURSIVE StripEnd(_, _, _)
StripEnd(t, s, e) == IF e >= s /\ t[e] = Ws THEN StripEnd(t, s, e - 1) ELSE e

NoMatch == [found |-> FALSE]
Match(v) == [found |-> TRUE, v |-> v]

\* re.search of  word\s+"(.*?)"  (IGNORECASE): the first place where the
\* word, white space and a quote are followed by a closing quote; group 1
\* is what stands between the two quotes.
QuotedAfter(t, word) ==
    LET q(i) == SkipWs(t, i + 1)
        M == {i \in 1..Len(t) :
                /\ LowerWord(t[i]) = word
                /\ q(i) > i + 1 /\ q(i) <= Len(t) /\ t[q(i)] = Quote
                /\ \E k \in (q(i) + 1)..Len(t) : t[k] = Quote}
    IN  IF M = {} THEN NoMatch
        ELSE LET i == Least(M)
                 k == Least({k \in (q(i) + 1)..Len(t) : t[k] = Quote})
             IN  Match(SubSeq(t, q(i) + 1, k - 1))

\* re.search of  word\s+(class+)  (IGNORECASE).
ValueAfter(t, word, class) ==
    LET q(i) == SkipWs(t, i + 1)
        M == {i \in 1..Len(t) :
                /\ LowerWord(t[i]) = word
                /\ q(i) > i + 1 /\ q(i) <= Len(t) /\ t[q(i)] \in class}
    IN  IF M = {} THEN NoMatch ELSE Match(t[q(Least(M))])

\* rom_pattern.finditer from index from:  rom\s*\(\s*(.*?)\s*\)  -- group 1
\* of every match, in order.  The lazy group ends before the first closing
\* parenthesis that follows the opening one.
RECURSIVE rom_blocks(_, _)
rom_blocks(t, from) ==
    LET o(i) == SkipWs(t, i + 1)
        M == {i \in from..Len(t) :
                /\ LowerWord(t[i]) = "rom"
                /\ o(i) <= Len(t) /\ t[o(i)] = "("
                /\ \E k \in (o(i) + 1)..Len(t) : t[k] = ")"}
    IN  IF M = {} THEN << >>
        ELSE LET i == Least(M)
                 c == Least({k \in (o(i) + 1)..Len(t) : t[k] = ")"})
                 s == SkipWs(t, o(i) + 1)
             IN  <<SubSeq(t, s, StripEnd(t, s, c - 1))>> \o rom_blocks(t, c + 1)

\* The anchors: the matches of  game\s*\(  (IGNORECASE), by the index of
\* the word.
Anchors(t) ==
    {i \in 1..Len(t) : /\ LowerWord(t[i]) = "game"
                       /\ SkipWs(t, i + 1) <= Len(t)
                       /\ t[SkipWs(t, i + 1)] = "("}

\* match.end(): the index of the first token after the anchor at i.
start_idx(t, i) == SkipWs(t, i + 1) + 1

\* Variant: the scan stops at the first closing parenthesis.
scan_FirstClose(t, current_idx, balance) ==
    LET C == {k \in current_idx..Len(t) : t[k] = ")"}
    IN  IF C = {} THEN <<balance, Len(t) + 1>> ELSE <<0, Least(C) + 1>>

\* The while loop of the balanced scan: balance and current_idx at its end.
RECURSIVE scan(_, _, _)
scan(t, current_idx, balance) ==
    IF balance > 0 /\ current_idx <= Len(t)
    THEN scan(t, current_idx + 1,
              CASE t[current_idx] = "(" -> balance + 1
                [] t[current_idx] = ")" -> balance - 1
                [] OTHER -> balance)
    ELSE <<balance, current_idx>>

\* content[start_idx : current_idx - 1] of the anchor at i.
block_content(t, i) == SubSeq(t, start_idx(t, i), scan(t, start_idx(t, i), 1)[2] - 2)

\* Variant: the first anchor whose scan reaches the end of the text ends the
\* search for blocks.
game_blocks_StopAtTruncated(t) ==
    LET kept == {i \in Anchors(t) :
                   \A j \in Anchors(t) :
                       j <= i => scan(t, start_idx(t, j), 1)[1] = 0}
        order == Ascending(kept)
    IN  [n \in 1..Len(order) |-> block_content(t, order[n])]

\* The blocks of the anchors whose scan ended with balance 0, in the order
\* of the anchors.
game_blocks(t) ==
    LET kept == {i \in Anchors(t) : scan(t, start_idx(t, i), 1)[1] = 0}
        order == Ascending(kept)
    IN  [n \in 1..Len(order) |-> block_content(t, order[n])]

\* The rom blocks of a game block that have a name.
named_roms(block) ==
    SelectSeq(rom_blocks(block, 1), LAMBDA rb : QuotedAfter(rb, "name").found)

\* The rows of one game block.
CmpGameRows(path, block) ==
    LET g_name_match == QuotedAfter(block, "name")
        g_desc_match == QuotedAfter(block, "description")
        game_name == IF g_name_match.found THEN PyStr(g_name_match.v)
                     ELSE PyStr(<<"Unknown">>)
        description == IF g_desc_match.found THEN PyStr(g_desc_match.v)
                       ELSE game_name
        rbs == named_roms(block)
        group(m, default) == IF m.found THEN PyStr(<<m.v>>) ELSE default
    IN  [n \in 1..Len(rbs) |->
            [dat_filename |-> PyStr(basename(path)),
             platform |-> PyStr(split_first(basename(path))),
             game_name |-> game_name,
             description |-> description,
             rom_name |-> PyStr(QuotedAfter(rbs[n], "name").v),
             size |-> IF ValueAfter(rbs[n], "size", Digits).found
                      THEN PyInt(int(ValueAfter(rbs[n], "size", Digits).v))
                      ELSE PyInt(0),
             crc |-> group(ValueAfter(rbs[n], "crc", HexDigits), PyStr(<< >>)),
             md5 |-> group(ValueAfter(rbs[n], "md5", HexDigits), PyStr(<< >>)),
             sha1 |-> group(ValueAfter(rbs[n], "sha1", HexDigits), PyStr(<< >>)),
             status |-> PyStr(<<"good">>),
             system |-> PyStr(<<basename(dirname(path))>>)]]

\* parse_cmp_dat_file on a file as it is on disk: a file that cannot be read
\* is logged and gives the empty list; otherwise the rows of the game blocks.
parse_cmp_dat(path, f) ==
    IF ~f.opens THEN Returned(<< >>, 1)
    ELSE LET blocks == game_blocks(f.text)
         IN  Returned(Flatten([b \in 1..Len(blocks) |->
                                  CmpGameRows(path, blocks[b])]), 0)

\* parse_dat_file on a file as it is on disk.
parse_dat(path, f) ==
    IF is_cmp_file(f) THEN parse_cmp_dat(path, f) ELSE parse_xml_dat(path, f)

\* ------------------------------------------------- scan: resume planning
\* Variant: the stored version is not compared with the detected one.
ResumeDecision_NoVersionCheck(exists, stored_version, version, count, a_resume, a_force, q) ==
    IF ~exists
    THEN [stop |-> FALSE, resume_mode |-> FALSE, prompt |-> "none"]
    ELSE IF count > 0
    THEN IF a_resume
         THEN [stop |-> FALSE, resume_mode |-> TRUE, prompt |-> "none"]
         ELSE [stop |-> FALSE, resume_mode |-> FALSE, prompt |-> "none"]
    ELSE [stop |-> FALSE, resume_mode |-> (q = "r"), prompt |-> "resume"]

\* main, the resume decision: which prompt is issued, whether the command
\* stops, and the value of resume_mode.
ResumeDecision(exists, stored_version, version, count, a_resume, a_force, q) ==
    IF ~exists
    THEN [stop |-> FALSE, resume_mode |-> FALSE, prompt |-> "none"]
    ELSE IF stored_version # "none" /\ stored_version # version
    THEN IF q # "y"
         THEN [stop |-> TRUE, resume_mode |-> FALSE, prompt |-> "version"]
         ELSE [stop |-> FALSE, resume_mode |-> FALSE, prompt |-> "version"]
    ELSE IF count > 0
    THEN IF a_resume
         THEN [stop |-> FALSE, resume_mode |-> TRUE, prompt |-> "none"]
         ELSE [stop |-> FALSE, resume_mode |-> FALSE, prompt |-> "none"]
    ELSE [stop |-> FALSE, resume_mode |-> (q = "r"), prompt |-> "resume"]

\* Variant: the resume list skips nothing.
ResumeList_SkipsNothing(processed) == all_dat_files

\* main, the resume list: the discovered files whose base name is not in
\* processed_files.
ResumeList(processed) ==
    SelectSeq(all_dat_files, LAMBDA f : basename(f) \notin processed)

InitialStatus(work) ==
    [p \in Files |-> IF p \in Range(work) THEN "queued" ELSE "skipped"]

RunEnded(r, mode, total) ==
    /\ pc' = "idle"
    /\ result' = r
    /\ history' = Append(history, [result |-> r, resume_mode |-> mode,
                                   flushed |-> total > 0])

\* The scan command from its start to the first iteration of the import
\* loop: create_database, the resume decision, the wipe or the resume list.
StartRunWith(ResumeArgs, ForceArgs, VersionArgs, Replies) ==
    /\ pc = "idle"
    /\ runs < MaxRuns
    /\ \E a_resume \in ResumeArgs, a_force \in ForceArgs,
          version \in VersionArgs, q \in Replies :
        LET count == Cardinality(processed_files)
            d == ResumeDecision(db_exists, db_metadata, version, count,
                                a_resume, a_force, q)
            work == IF d.resume_mode THEN ResumeList(processed_files)
                    ELSE all_dat_files
        IN  /\ runs' = runs + 1
            /\ args_resume' = a_resume
            /\ args_force_new' = a_force
            /\ current_version' = version
            /\ answer' = IF d.prompt = "none" THEN "" ELSE q
            /\ prompt' = d.prompt
            /\ processed_count' = IF d.prompt = "version" \/ ~db_exists
                                  THEN 0 ELSE count
            /\ resume_mode' = d.resume_mode
            /\ db_exists' = TRUE
            /\ buffer' = << >>
            /\ tomark' = {}
            /\ final' = FALSE
            /\ cur' = all_dat_files[1]
            /\ total_roms' = 0
            /\ error_count' = 0
            /\ log_count' = 0
            /\ UNCHANGED << ParserVars, MonitorVars, returned, caught, all_dat_files, content, args_batch_size,
                            args_workers, failures >>
            /\ IF d.stop
               THEN /\ UNCHANGED << roms, processed_files, db_metadata,
                                    files_to_process, status, pbar_n,
                                    pbar_total >>
                    /\ RunEnded("protected", FALSE, 0)
               ELSE /\ IF d.resume_mode
                       THEN UNCHANGED << roms, processed_files, db_metadata >>
                       ELSE /\ roms' = NoRoms
                            /\ processed_files' = {}
                            /\ db_metadata' = version
                    /\ files_to_process' = work
                    /\ status' = InitialStatus(work)
                    /\ pbar_total' = SumSizes(Files)
                    /\ pbar_n' = SumSizes(Files) - SumSizes(Range(work))
                    /\ IF work = << >>
                       THEN RunEnded("nothing_to_do", d.resume_mode, 0)
                       ELSE /\ pc' = "loop"
                            /\ result' = "running"
                            /\ UNCHANGED history

\* ------------------------------------------------- scan: the import loop
Queued == {p \in Files : status[p] = "queued"}

\* The next work item: the serial loop walks files_to_process in order, the
\* pool hands its results over in completion order (as_completed).
NextItems ==
    IF args_workers < 2
    THEN {p \in Queued : \A i, j \in 1..Len(files_to_process) :
              (files_to_process[j] = p /\ i < j)
                  => status[files_to_process[i]] # "queued"}
    ELSE Queued

\* The tail of one loop iteration: set_postfix and pbar.update(f_size).
IterationDone(p) ==
    /\ status' = [status EXCEPT ![p] = "consumed"]
    /\ pbar_n' = pbar_n + getsize(p)
    /\ pc' = "loop"

\* The except clause of the loop body.
LoopExcept(p) ==
    /\ error_count' = error_count + 1
    /\ log_count' = log_count + 1
    /\ IterationDone(p)

\* What an exception does that leaves flush_buffer: inside the loop it is one
\* more failed file, in the final flush it ends the command (Critical Error).
FlushRaised ==
    IF final
    THEN /\ RunEnded("critical", resume_mode, total_roms)
         /\ UNCHANGED << status, pbar_n, error_count, log_count >>
    ELSE LoopExcept(cur)

\* One iteration of the loop up to the call of flush_buffer.
Take(p) ==
    /\ pc = "loop"
    /\ p \in NextItems
    /\ LET data == parse_dat_file(p)
       IN  IF data.raised
           THEN /\ LoopExcept(p)
                /\ UNCHANGED << buffer, cur, result, history >>
           ELSE IF data.rows = << >>
           THEN /\ IterationDone(p)
                /\ UNCHANGED << buffer, cur, error_count, log_count,
                                result, history >>
           ELSE /\ buffer' = buffer \o data.rows
                /\ cur' = p
                /\ IF Len(buffer') >= args_batch_size
                   THEN /\ pc' = "insert"
                        /\ status' = [status EXCEPT ![p] = "taken"]
                        /\ UNCHANGED pbar_n
                   ELSE IterationDone(p)
                /\ UNCHANGED << error_count, log_count, result, history >>
    /\ UNCHANGED << ParserVars, MonitorVars, returned, caught, all_dat_files, content, db_exists, roms, processed_files, db_metadata,
                    runs, args_resume, args_force_new, args_batch_size,
                    args_workers, current_version, answer, prompt,
                    processed_count, resume_mode, files_to_process, tomark,
                    final, total_roms, pbar_total, failures >>

\* flush_buffer: conn.executemany returns.
InsertOk ==
    /\ pc = "insert"
    /\ roms' = executemany(roms, buffer)
    /\ tomark' = unique_files(buffer)
    /\ pc' = "mark"
    /\ UNCHANGED << ParserVars, MonitorVars, returned, caught, all_dat_files, content, db_exists, processed_files, db_metadata,
                    runs, args_resume, args_force_new, args_batch_size,
                    args_workers, current_version, answer, prompt,
                    processed_count, resume_mode, files_to_process, status,
                    cur, buffer, final, total_roms, error_count, log_count,
                    pbar_n, pbar_total, result, failures, history >>

\* flush_buffer: conn.executemany raises after k of the rows went in.
InsertFail ==
    /\ pc = "insert"
    /\ failures < MaxFailures
    /\ failures' = failures + 1
    /\ \E k \in 0..(Len(buffer) - 1) :
           roms' = executemany(roms, SubSeq(buffer, 1, k))
    /\ FlushRaised
    /\ UNCHANGED << ParserVars, MonitorVars, returned, caught, all_dat_files, content, db_exists, processed_files, db_metadata,
                    runs, args_resume, args_force_new, args_batch_size,
                    args_workers, current_version, answer, prompt,
                    processed_count, resume_mode, files_to_process,
                    cur, buffer, tomark, final, total_roms, pbar_total >>
    /\ IF final THEN TRUE ELSE UNCHANGED << result, history >>

\* flush_buffer: one INSERT OR IGNORE INTO processed_files; after the last
\* one, total_roms += len(buffer) and buffer.clear().  The final flush is
\* followed by conn.close() and the end of the command.
Mark ==
    /\ pc = "mark"
    /\ \E n \in tomark :
        /\ processed_files' = processed_files \cup {n}
        /\ tomark' = tomark \ {n}
        /\ IF tomark' # {}
           THEN UNCHANGED << buffer, total_roms, status, pbar_n, pc,
                             result, history >>
           ELSE /\ total_roms' = total_roms + Len(buffer)
                /\ buffer' = << >>
                /\ IF final
                   THEN /\ RunEnded("done", resume_mode,
                                     total_roms + Len(buffer))
                        /\ UNCHANGED << status, pbar_n >>
                   ELSE /\ IterationDone(cur)
                        /\ UNCHANGED << result, history >>
    /\ UNCHANGED << ParserVars, MonitorVars, returned, caught, all_dat_files, content, db_exists, roms, db_metadata,
                    runs, args_resume, args_force_new, args_batch_size,
                    args_workers, current_version, answer, prompt,
                    processed_count, resume_mode, files_to_process,
                    cur, final, error_count, log_count, pbar_total,
                    failures >>

\* flush_buffer: an INSERT OR IGNORE INTO processed_files raises.
MarkFail ==
    /\ pc = "mark"
    /\ failures < MaxFailures
    /\ failures' = failures + 1
    /\ tomark' = {}
    /\ FlushRaised
    /\ UNCHANGED << ParserVars, MonitorVars, returned, caught, all_dat_files, content, db_exists, roms, processed_files, db_metadata,
                    runs, args_resume, args_force_new, args_batch_size,
                    args_workers, current_version, answer, prompt,
                    processed_count, resume_mode, files_to_process,
                    cur, buffer, final, total_roms, pbar_total >>
    /\ IF final THEN TRUE ELSE UNCHANGED << result, history >>

\* After the loop: the final flush_buffer(), then conn.close().
EndLoop ==
    /\ pc = "loop"
    /\ Queued = {}
    /\ IF buffer = << >>
       THEN /\ RunEnded("done", resume_mode, total_roms)
            /\ UNCHANGED final
       ELSE /\ pc' = "insert"
            /\ final' = TRUE
            /\ UNCHANGED << result, history >>
    /\ UNCHANGED << ParserVars, MonitorVars, returned, caught, all_dat_files, content, db_exists, roms, processed_files, db_metadata,
                    runs, args_resume, args_force_new, args_batch_size,
                    args_workers, current_version, answer, prompt,
                    processed_count, resume_mode, files_to_process, status,
                    cur, buffer, tomark, total_roms, error_count, log_count,
                    pbar_n, pbar_total, failures >>

\* KeyboardInterrupt (or the process being killed) at any point of the run:
\* main returns without a final flush; what is in the store stays there.
Interrupt ==
    /\ pc \in {"loop", "insert", "mark"}
    /\ RunEnded("interrupted", resume_mode, total_roms)
    /\ UNCHANGED << ParserVars, MonitorVars, returned, caught, all_dat_files, content, db_exists, roms, processed_files, db_metadata,
                    runs, args_resume, args_force_new, args_batch_size,
                    args_workers, current_version, answer, prompt,
                    processed_count, resume_mode, files_to_process, status,
                    cur, buffer, tomark, final, total_roms, error_count,
                    log_count, pbar_n, pbar_total, failures >>

Init ==
    /\ all_dat_files \in DirectoryScans
    /\ content \in [Files -> Contents]
    /\ db_exists = FALSE
    /\ roms = NoRoms
    /\ processed_files = {}
    /\ db_metadata = "none"
    /\ runs = 0
    /\ args_resume = FALSE
    /\ args_force_new = FALSE
    /\ args_batch_size \in BatchSizes
    /\ args_workers \in WorkerCounts
    /\ current_version = "none"
    /\ answer = ""
    /\ prompt = "none"
    /\ processed_count = 0
    /\ resume_mode = FALSE
    /\ files_to_process = << >>
    /\ status = [p \in Files |-> "skipped"]
    /\ cur = all_dat_files[1]
    /\ buffer = << >>
    /\ tomark = {}
    /\ final = FALSE
    /\ total_roms = 0
    /\ error_count = 0
    /\ log_count = 0
    /\ pbar_n = 0
    /\ pbar_total = 0
    /\ pc = "idle"
    /\ result = "none"
    /\ failures = 0
    /\ history = << >>
    /\ returned = "none"
    /\ caught = << >>
    /\ ParserIdle
    /\ MonitorIdle

\* Every command line, input directory version and reply.
StartRun == StartRunWith(BOOLEAN, BOOLEAN, Versions, Answers)

\* The invocations of one release: an import and its re-invocations, with or
\* without --resume, answering the resume prompt with r or s.
StartImport ==
    StartRunWith(BOOLEAN, {FALSE}, {"TOSEC-v2023-08-15"}, {"r", "s"})

Next ==
    \/ StartImport
    \/ \E p \in Files : Take(p)
    \/ InsertOk
    \/ InsertFail
    \/ Mark
    \/ MarkFail
    \/ EndLoop
    \/ Interrupt

Spec == Init /\ [][Next]_vars

\* The resume planner under every command line, over one collection in which
\* every file holds one rom.
InitPlan ==
    /\ Init
    /\ \A p \in Files : content[p] = [well_formed |-> TRUE, roms |-> 1]

NextPlan ==
    \/ StartRun
    \/ \E p \in Files : Take(p)
    \/ InsertOk
    \/ InsertFail
    \/ Mark
    \/ MarkFail
    \/ EndLoop
    \/ Interrupt

SpecPlan == InitPlan /\ [][NextPlan]_vars

\* ------------------------------------------------ session.py: messages
\* An exception message, as its words.
StorageMsgs ==
    { <<"There", "is", "Not", "enough", "space", "on", "the", "disk">>,
      <<"Read-only", "file", "system">>,
      <<"No", "space", "left", "on", "device">>,
      <<"Constraint", "Error">> }

\* Variant: the message is searched without lower-casing it.
IsFatal_CaseSensitive(msg) ==
    \/ Contains(msg, <<"not", "enough", "space">>)
    \/ Contains(msg, <<"read-only", "file", "system">>)

\* The test of _run_serial and _run_parallel on a caught exception.
IsFatal(msg) ==
    LET error_msg == lower(msg)
    IN  \/ Contains(error_msg, <<"not", "enough", "space">>)
        \/ Contains(error_msg, <<"read-only", "file", "system">>)

\* DatFileParser.parse and DatabaseManager.insert_batch.
parse(p) == parse_dat_file(p)
insert_batch(table, rows) == executemany(table, rows)

\* ------------------------------------------------ session.py: ImportSession
ScanOnly == << ParserVars, db_exists, db_metadata, processed_files, runs, args_resume,
               args_force_new, current_version, answer, prompt,
               processed_count, resume_mode, tomark, history >>

SessionInputs == << all_dat_files, content, args_batch_size, args_workers,
                    files_to_process >>

Running == {p \in Files : status[p] = "running"}
Parsed == {p \in Files : status[p] = "parsed"}

FirstQueued ==
    {p \in Queued : \A i, j \in 1..Len(files_to_process) :
         (files_to_process[j] = p /\ i < j)
             => status[files_to_process[i]] # "queued"}

\* run, up to the call of _run_serial or _run_parallel: the progress bar is
\* set up, the monitor thread is started and, in the pool, every file is
\* submitted.
S_Run ==
    /\ pc = "new"
    /\ pbar_total' = SumSizes(Files)
    /\ pbar_n' = SumSizes(Files) - SumSizes(Range(files_to_process))
    /\ pc' = "loop"
    /\ result' = "running"
    /\ stop_monitor' = FALSE
    /\ monitor' = "running"
    /\ UNCHANGED << caught, ScanOnly, refreshed, SessionInputs, roms, status, cur, buffer, final,
                    total_roms, error_count, log_count, failures, returned >>

\* A pool thread takes the next submitted file and starts parser.parse.
S_WorkerStart(p) ==
    /\ pc \in {"loop", "flush", "unwind"}
    /\ args_workers >= 2
    /\ p \in FirstQueued
    /\ Cardinality(Running) < args_workers
    /\ status' = [status EXCEPT ![p] = "running"]
    /\ UNCHANGED << caught, ScanOnly, MonitorVars, SessionInputs, roms, cur, buffer, final,
                    total_roms, error_count, log_count, pbar_n, pbar_total,
                    pc, result, failures, returned >>

\* Variant: the pool thread writes the rows it parsed to the store itself.
S_WorkerFinish_Inserts(p) ==
    /\ p \in Running
    /\ status' = [status EXCEPT ![p] = "parsed"]
    /\ roms' = insert_batch(roms, parse(p).rows)
    /\ UNCHANGED << caught, ScanOnly, MonitorVars, SessionInputs, cur, buffer, final,
                    total_roms, error_count, log_count, pbar_n, pbar_total,
                    pc, result, failures, returned >>

\* A pool thread finishes parser.parse: the future is done.
S_WorkerFinish(p) ==
    /\ p \in Running
    /\ status' = [status EXCEPT ![p] = "parsed"]
    /\ UNCHANGED << caught, ScanOnly, MonitorVars, SessionInputs, roms, cur, buffer, final,
                    total_roms, error_count, log_count, pbar_n, pbar_total,
                    pc, result, failures, returned >>

\* run's except clause and return statement.
S_Return(r) ==
    /\ pc' = "returned"
    /\ result' = r
    /\ returned' = "pair"

\* Variant: the raise is outside the if, every caught exception ends the run.
S_Except_Reraises(msg, p) ==
    /\ caught' = msg
    /\ status' = [q \in Files |->
                     IF q = p THEN "consumed"
                     ELSE IF status[q] = "queued" THEN "cancelled"
                     ELSE status[q]]
    /\ IF Running = {}
       THEN S_Return("aborted")
       ELSE /\ pc' = "shutdown"
            /\ result' = "aborted"
            /\ UNCHANGED returned
    /\ UNCHANGED << error_count, log_count >>

\* Variant: the except clause of _run_parallel does not count the failure.
S_Except_PoolUncounted(msg, p) ==
    /\ caught' = msg
    /\ IF IsFatal(msg)
       THEN /\ status' = [q \in Files |->
                             IF q = p THEN "consumed"
                             ELSE IF status[q] = "queued" THEN "cancelled"
                             ELSE status[q]]
            /\ IF Running = {}
               THEN S_Return("aborted")
               ELSE /\ pc' = "shutdown"
                    /\ result' = "aborted"
                    /\ UNCHANGED returned
            /\ UNCHANGED << error_count, log_count >>
       ELSE /\ error_count' = IF args_workers >= 2 THEN error_count
                              ELSE error_count + 1
            /\ log_count' = log_count + 1
            /\ status' = [status EXCEPT ![p] = "consumed"]
            /\ pc' = "loop"
            /\ UNCHANGED << result, returned >>

\* The except clause of _run_serial and of _run_parallel, for file p.
S_Except(msg, p) ==
    /\ caught' = msg
    /\ IF IsFatal(msg)
       THEN /\ status' = [q \in Files |->
                             IF q = p THEN "consumed"
                             ELSE IF status[q] = "queued" THEN "cancelled"
                             ELSE status[q]]
            /\ IF Running = {}
               THEN S_Return("aborted")
               ELSE /\ pc' = "shutdown"
                    /\ result' = "aborted"
                    /\ UNCHANGED returned
            /\ UNCHANGED << error_count, log_count >>
       ELSE /\ error_count' = error_count + 1
            /\ log_count' = log_count + 1
            /\ status' = [status EXCEPT ![p] = "consumed"]
            /\ pc' = "loop"
            /\ UNCHANGED << result, returned >>

\* The items the consumer can take next: the next file of the serial loop,
\* or a finished future of the pool.
S_NextItems == IF args_workers < 2 THEN FirstQueued ELSE Parsed

\* One iteration of _run_serial or _run_parallel up to the call of
\* _flush_buffer in _process_result.
S_Take(p) ==
    /\ pc = "loop"
    /\ p \in S_NextItems
    /\ LET data == parse(p)
       IN  IF data.raised
           THEN /\ S_Except(data.msg, p)
                /\ UNCHANGED << buffer, cur, pbar_n >>
           ELSE IF data.rows = << >>
           THEN /\ status' = [status EXCEPT ![p] = "consumed"]
                /\ pbar_n' = pbar_n + getsize(p)
                /\ UNCHANGED << buffer, cur, error_count, log_count, pc,
                                result, returned, caught >>
           ELSE /\ buffer' = buffer \o data.rows
                /\ cur' = p
                /\ IF Len(buffer') >= args_batch_size
                   THEN /\ pc' = "flush"
                        /\ status' = [status EXCEPT ![p] = "taken"]
                        /\ UNCHANGED pbar_n
                   ELSE /\ status' = [status EXCEPT ![p] = "consumed"]
                        /\ pbar_n' = pbar_n + getsize(p)
                        /\ UNCHANGED pc
                /\ UNCHANGED << error_count, log_count, result, returned,
                                caught >>
    /\ UNCHANGED << ScanOnly, MonitorVars, SessionInputs, roms, final, total_roms,
                    pbar_total, failures >>

\* Variant: _flush_buffer assigns the batch length to total_roms.
S_FlushOk_Assigns ==
    /\ pc = "flush"
    /\ roms' = insert_batch(roms, buffer)
    /\ total_roms' = Len(buffer)
    /\ buffer' = << >>
    /\ status' = [status EXCEPT ![cur] = "consumed"]
    /\ pbar_n' = pbar_n + getsize(cur)
    /\ pc' = "loop"
    /\ UNCHANGED << caught, ScanOnly, MonitorVars, SessionInputs, cur, final, error_count,
                    log_count, pbar_total, result, failures, returned >>

\* Variant: a flush writes at most batch_size rows and keeps the others.
S_FlushOk_Chunks ==
    /\ pc = "flush"
    /\ LET n == IF Len(buffer) < args_batch_size
                THEN Len(buffer) ELSE args_batch_size
       IN  /\ roms' = insert_batch(roms, SubSeq(buffer, 1, n))
           /\ total_roms' = total_roms + n
           /\ buffer' = SubSeq(buffer, n + 1, Len(buffer))
    /\ status' = [status EXCEPT ![cur] = "consumed"]
    /\ pbar_n' = pbar_n + getsize(cur)
    /\ pc' = "loop"
    /\ UNCHANGED << caught, ScanOnly, MonitorVars, SessionInputs, cur, final, error_count,
                    log_count, pbar_total, result, failures, returned >>

\* _flush_buffer in _process_result: insert_batch returns; then the rest of
\* _process_result.
S_FlushOk ==
    /\ pc = "flush"
    /\ roms' = insert_batch(roms, buffer)
    /\ total_roms' = total_roms + Len(buffer)
    /\ buffer' = << >>
    /\ status' = [status EXCEPT ![cur] = "consumed"]
    /\ pbar_n' = pbar_n + getsize(cur)
    /\ pc' = "loop"
    /\ UNCHANGED << caught, ScanOnly, MonitorVars, SessionInputs, cur, final, error_count,
                    log_count, pbar_total, result, failures, returned >>

\* _flush_buffer in _process_result: insert_batch raises.
S_FlushFail ==
    /\ pc = "flush"
    /\ failures < MaxFailures
    /\ failures' = failures + 1
    /\ \E msg \in StorageMsgs : S_Except(msg, cur)
    /\ UNCHANGED << ScanOnly, MonitorVars, SessionInputs, roms, cur, buffer, final,
                    total_roms, pbar_n, pbar_total >>

\* Variant: the with block also waits for the cancelled items to be run.
S_Shutdown_WaitsForCancelled ==
    /\ pc = "shutdown"
    /\ Running = {}
    /\ \A p \in Files : status[p] # "cancelled"
    /\ S_Return("aborted")
    /\ UNCHANGED << caught, ScanOnly, MonitorVars, SessionInputs, roms, status, cur, buffer, final,
                    total_roms, error_count, log_count, pbar_n, pbar_total,
                    failures >>

\* The pool's with block ends once the running parses are over; the
\* OSError then reaches run's except clause.
S_Shutdown ==
    /\ pc = "shutdown"
    /\ Running = {}
    /\ S_Return("aborted")
    /\ UNCHANGED << caught, ScanOnly, MonitorVars, SessionInputs, roms, status, cur, buffer, final,
                    total_roms, error_count, log_count, pbar_n, pbar_total,
                    failures >>

\* Variant: the final _flush_buffer writes although the buffer is empty.
S_EndLoop_AlwaysDrains ==
    /\ pc = "loop"
    /\ \A p \in Files : status[p] \in {"consumed", "skipped"}
    /\ pc' = "drain"
    /\ final' = TRUE
    /\ UNCHANGED << result, returned >>
    /\ stop_monitor' = TRUE
    /\ monitor' = "ended"
    /\ UNCHANGED << caught, ScanOnly, refreshed, SessionInputs, roms, status, cur, buffer,
                    total_roms, error_count, log_count, pbar_n, pbar_total,
                    failures >>

\* Variant: run returns after the loop without the final _flush_buffer.
S_EndLoop_NoDrain ==
    /\ pc = "loop"
    /\ \A p \in Files : status[p] \in {"consumed", "skipped"}
    /\ S_Return("done")
    /\ stop_monitor' = TRUE
    /\ monitor' = "ended"
    /\ UNCHANGED << caught, ScanOnly, refreshed, SessionInputs, roms, status, cur, buffer,
                    final, total_roms, error_count, log_count, pbar_n,
                    pbar_total, failures >>

\* The loop is over: the monitor is stopped and run calls _flush_buffer.
S_EndLoop ==
    /\ pc = "loop"
    /\ \A p \in Files : status[p] \in {"consumed", "skipped"}
    /\ IF buffer = << >>
       THEN /\ S_Return("done")
            /\ UNCHANGED final
       ELSE /\ pc' = "drain"
            /\ final' = TRUE
            /\ UNCHANGED << result, returned >>
    /\ stop_monitor' = TRUE
    /\ monitor' = "ended"
    /\ UNCHANGED << caught, ScanOnly, refreshed, SessionInputs, roms, status, cur, buffer,
                    total_roms, error_count, log_count, pbar_n, pbar_total,
                    failures >>

\* The final _flush_buffer: insert_batch returns.
S_DrainOk ==
    /\ pc = "drain"
    /\ roms' = insert_batch(roms, buffer)
    /\ total_roms' = total_roms + Len(buffer)
    /\ buffer' = << >>
    /\ S_Return("done")
    /\ UNCHANGED << caught, ScanOnly, MonitorVars, SessionInputs, status, cur, final, error_count,
                    log_count, pbar_n, pbar_total, failures >>

\* The final _flush_buffer: insert_batch raises; run prints Critical Error.
S_DrainFail ==
    /\ pc = "drain"
    /\ failures < MaxFailures
    /\ failures' = failures + 1
    /\ \E msg \in StorageMsgs : caught' = msg
    /\ S_Return("critical")
    /\ UNCHANGED << ScanOnly, MonitorVars, SessionInputs, roms, status, cur, buffer, final,
                    total_roms, error_count, log_count, pbar_n, pbar_total >>

\* KeyboardInterrupt in the consumer: the exception leaves the loop (in the
\* pool, through the with block, which lets the submitted parses run to their
\* end), run's except clause prints "Interrupted." and the pair is returned.
\* The final _flush_buffer is not reached.
S_Interrupt ==
    /\ pc \in {"loop", "flush", "drain"}
    /\ IF args_workers >= 2 /\ (Queued \cup Running) # {}
       THEN /\ pc' = "unwind"
            /\ result' = "interrupted"
            /\ UNCHANGED returned
       ELSE S_Return("interrupted")
    /\ UNCHANGED << caught, ScanOnly, MonitorVars, SessionInputs, roms, status, cur, buffer,
                    final, total_roms, error_count, log_count, pbar_n,
                    pbar_total, failures >>

\* The with block of an interrupted pool ends once every submitted parse is
\* over.
S_Unwound ==
    /\ pc = "unwind"
    /\ (Queued \cup Running) = {}
    /\ S_Return("interrupted")
    /\ UNCHANGED << caught, ScanOnly, MonitorVars, SessionInputs, roms, status, cur, buffer,
                    final, total_roms, error_count, log_count, pbar_n,
                    pbar_total, failures >>

SessionScans ==
    DirectoryScans
        \cup { << <<"amiga", "x.dat">>, <<"amiga", "y.dat">>,
                  <<"c64", "x.dat">> >> }

\* ImportSession(args, db_manager, all_files), and the list handed to run.
InitSession ==
    /\ all_dat_files \in SessionScans
    /\ content \in [Files -> Contents]
    /\ args_batch_size \in BatchSizes
    /\ args_workers \in WorkerCounts
    /\ \E k \in 1..(Len(all_dat_files) + 1) :
           files_to_process = SubSeq(all_dat_files, k, Len(all_dat_files))
    /\ status = InitialStatus(files_to_process)
    /\ db_exists = TRUE
    /\ roms = NoRoms
    /\ processed_files = {}
    /\ db_metadata = "none"
    /\ runs = 0
    /\ args_resume = FALSE
    /\ args_force_new = FALSE
    /\ current_version = "none"
    /\ answer = ""
    /\ prompt = "none"
    /\ processed_count = 0
    /\ resume_mode = FALSE
    /\ cur = all_dat_files[1]
    /\ buffer = << >>
    /\ tomark = {}
    /\ final = FALSE
    /\ total_roms = 0
    /\ error_count = 0
    /\ log_count = 0
    /\ pbar_n = 0
    /\ pbar_total = 0
    /\ pc = "new"
    /\ result = "none"
    /\ failures = 0
    /\ history = << >>
    /\ returned = "none"
    /\ caught = << >>
    /\ ParserIdle
    /\ MonitorIdle

\* The monitor thread: one turn of  while not stop_monitor.is_set():
\* time.sleep(1); pbar.refresh().
M_Refresh ==
    /\ monitor = "running"
    /\ ~stop_monitor
    /\ refreshed' = IF pc = "returned" THEN "returned" ELSE "running"
    /\ UNCHANGED << caught, ScanOnly, SessionInputs, roms, status, cur, buffer,
                    final, total_roms, error_count, log_count, pbar_n,
                    pbar_total, pc, result, failures, returned,
                    stop_monitor, monitor >>

NextSession ==
    \/ S_Run
    \/ \E p \in Files : S_WorkerStart(p)
    \/ \E p \in Files : S_WorkerFinish(p)
    \/ \E p \in Files : S_Take(p)
    \/ S_FlushOk
    \/ S_FlushFail
    \/ S_Shutdown
    \/ S_EndLoop
    \/ S_DrainOk
    \/ S_DrainFail
    \/ S_Interrupt
    \/ S_Unwound
    \/ M_Refresh

SpecSession == InitSession /\ [][NextSession]_vars

\* The steps of the pool threads, and the steps of the thread that called
\* run (the consumer).  A KeyboardInterrupt is an event of the environment.
S_Worker == \E p \in Files : S_WorkerStart(p) \/ S_WorkerFinish(p)

S_Consumer ==
    \/ S_Run
    \/ \E p \in Files : S_Take(p)
    \/ S_FlushOk
    \/ S_FlushFail
    \/ S_Shutdown
    \/ S_EndLoop
    \/ S_DrainOk
    \/ S_DrainFail
    \/ S_Unwound

\* The session under fair scheduling: a thread that can take a step is not
\* held back for ever.
SpecSessionFair ==
    InitSession /\ [][NextSession]_vars /\ WF_vars(S_Consumer) /\ WF_vars(S_Worker)

\* --------------------------------------------- one call of parse_dat_file
ProgramVars == << all_dat_files, content, db_exists, roms, processed_files,
                  db_metadata, runs, args_resume, args_force_new,
                  args_batch_size, args_workers, current_version, answer,
                  prompt, processed_count, resume_mode, files_to_process,
                  status, cur, buffer, tomark, final, total_roms, error_count,
                  log_count, pbar_n, pbar_total, pc, result, failures, history,
                  returned, caught, MonitorVars >>

ParsePaths == {<<"dats", n>> : n \in FileNames}

\* parse_dat_file is called on a file of either dialect; no scan is running.
InitParse ==
    /\ file_path \in ParsePaths
    /\ file \in XmlFiles \cup CmpFiles
    /\ parsed = [raised |-> FALSE, logged |-> 0, rows |-> << >>]
    /\ ppc = "call"
    /\ all_dat_files = << <<"amiga", "x.dat">> >>
    /\ content = [p \in Files |-> [well_formed |-> FALSE, roms |-> 0]]
    /\ args_batch_size = 1
    /\ args_workers = 1
    /\ files_to_process = << >>
    /\ status = InitialStatus(files_to_process)
    /\ db_exists = FALSE
    /\ roms = NoRoms
    /\ processed_files = {}
    /\ db_metadata = "none"
    /\ runs = 0
    /\ args_resume = FALSE
    /\ args_force_new = FALSE
    /\ current_version = "none"
    /\ answer = ""
    /\ prompt = "none"
    /\ processed_count = 0
    /\ resume_mode = FALSE
    /\ cur = all_dat_files[1]
    /\ buffer = << >>
    /\ tomark = {}
    /\ final = FALSE
    /\ total_roms = 0
    /\ error_count = 0
    /\ log_count = 0
    /\ pbar_n = 0
    /\ pbar_total = 0
    /\ pc = "new"
    /\ result = "none"
    /\ failures = 0
    /\ history = << >>
    /\ returned = "none"
    /\ caught = << >>
    /\ MonitorIdle

\* The call takes the legacy branch: parse_cmp_dat_file inside try/except.
P_ParseCmp ==
    /\ ppc = "call"
    /\ is_cmp_file(file)
    /\ parsed' = parse_dat(file_path, file)
    /\ ppc' = "returned"
    /\ UNCHANGED << file_path, file, ProgramVars >>

\* The call takes the XML branch: parse_xml_dat_file.
P_ParseXml ==
    /\ ppc = "call"
    /\ ~is_cmp_file(file)
    /\ parsed' = parse_dat(file_path, file)
    /\ ppc' = "returned"
    /\ UNCHANGED << file_path, file, ProgramVars >>

NextParse ==
    \/ P_ParseCmp
    \/ P_ParseXml

SpecParse == InitParse /\ [][NextParse]_vars


\* ------------------------------------------------------------ scan claims
WellFormed(p) == ~parse_dat_file(p).raised

RowsOf(p) == Range(parse_dat_file(p).rows)

\* The rows an import of the whole collection stores when nothing fails.
ExpectedRows == UNION {RowsOf(p) : p \in Files}

AllStored(p) == \A r \in RowsOf(p) : roms[r] > 0

\* C1: every name in processed_files is the name of a file that produced
\* rows, all of which are in the roms table; and while flush_buffer is
\* marking names, the whole buffer is already in the table.
C1_CommittedImpliesStored ==
    /\ \A n \in processed_files :
           \E p \in Files : basename(p) = n /\ RowsOf(p) # {} /\ AllStored(p)
    /\ pc = "mark" => \A i \in 1..Len(buffer) : roms[buffer[i]] > 0

\* C1 witness: a name is committed while the loop still has work queued.
C1_Witness ==
    /\ pc = "loop"
    /\ processed_files # {}
    /\ Queued # {}

ResumedAfterInterrupt ==
    /\ pc = "idle"
    /\ runs = 2
    /\ history[1].result = "interrupted"
    /\ history[2].resume_mode
    /\ history[2].result \in {"done", "nothing_to_do"}

\* C2: an import interrupted after a completed flush and then resumed ends
\* with the same set of stored rows as one uninterrupted import, for every
\* work list (no storage failure in either).
C2_ResumeSameRecordSet ==
    failures = 0 =>
        /\ (pc = "idle" /\ runs = 1 /\ history[1].result = "done")
               => StoredRows = ExpectedRows
        /\ (ResumedAfterInterrupt /\ history[1].flushed)
               => StoredRows = ExpectedRows

\* C6: after an interruption anywhere in a run (also between the batched
\* write and the marking) and a resume, every row is stored exactly once.
C6_ResumeExactlyOnce ==
    (failures = 0 /\ ResumedAfterInterrupt)
        => \A r \in ExpectedRows : roms[r] = 1

\* C7: committed names have their rows stored, and when a run is done every
\* work item that parsed is committed.
C7_DoneImpliesCommitted ==
    /\ \A n \in processed_files :
           \E p \in Files : basename(p) = n /\ AllStored(p)
    /\ (pc = "idle" /\ result = "done")
           => \A p \in Range(files_to_process) :
                  WellFormed(p) => basename(p) \in processed_files

\* C10: with neither --resume nor --force-new, over a store of the same
\* version that holds committed files, the resume prompt is issued and the
\* prior data is kept unless the reply is s.
C10_AskBeforeWipe ==
    (runs >= 2 /\ processed_count > 0 /\ ~args_resume /\ ~args_force_new)
        => /\ prompt = "resume"
           /\ (answer # "s" => resume_mode)

\* C11: a run that finds a stored version other than the detected one either
\* stops and leaves the store as it is, or wipes rows, committed names and
\* metadata and stores the detected version; rows are only ever added while
\* the stored version is the detected one, and the stored version changes
\* only together with a wipe.  So rows of two versions never share a store.
C11_NoVersionMixing ==
    /\ [][(runs' = runs + 1 /\ db_exists /\ db_metadata # current_version')
             => \/ /\ result' = "protected"
                   /\ UNCHANGED << roms, processed_files, db_metadata >>
                \/ /\ roms' = NoRoms
                   /\ processed_files' = {}
                   /\ db_metadata' = current_version']_vars
    /\ [][(roms' # roms /\ roms' # NoRoms)
             => db_metadata' = current_version']_vars
    /\ [][(db_metadata' # db_metadata)
             => (roms' = NoRoms /\ processed_files' = {})]_vars

\* C11 witness: after an import that stored rows, a run over another version
\* was confirmed with y and has stored rows of its own.
C11_Witness ==
    /\ runs = 2
    /\ prompt = "version"
    /\ answer = "y"
    /\ history[1].flushed
    /\ StoredRows # {}
    /\ db_metadata = current_version

\* C12: a run over an existing database with --resume or --force-new asks
\* nothing; with --resume it resumes, with --force-new alone it starts fresh.
C12_FlagsSkipPrompt ==
    (runs >= 2 /\ (args_resume \/ args_force_new))
        => /\ prompt = "none"
           /\ (args_resume => resume_mode)
           /\ ((args_force_new /\ ~args_resume) => ~resume_mode)

IndexOf(s, e) == CHOOSE i \in 1..Len(s) : s[i] = e

\* C13: a run that goes on after planning either starts fresh (rows,
\* committed names and metadata wiped, the detected version stored, the work
\* list is every discovered file) or resumes (nothing wiped, the work list is
\* the discovered files whose base name is not committed, each once, in
\* discovery order).
C13_PlannerOutput ==
    [][(runs' = runs + 1 /\ result' # "protected")
          => IF resume_mode'
             THEN /\ UNCHANGED << roms, processed_files, db_metadata >>
                  /\ Range(files_to_process')
                         = {p \in Files : basename(p) \notin processed_files}
                  /\ Len(files_to_process')
                         = Cardinality(Range(files_to_process'))
                  /\ \A i, j \in 1..Len(files_to_process') :
                         i < j => IndexOf(all_dat_files, files_to_process'[i])
                                    < IndexOf(all_dat_files,
                                              files_to_process'[j])
             ELSE /\ roms' = NoRoms
                  /\ processed_files' = {}
                  /\ db_metadata' = current_version'
                  /\ files_to_process' = all_dat_files]_vars

\* C13 witness: a resumed run that skips a committed file and has work left.
C13_Witness ==
    /\ runs = 2
    /\ resume_mode
    /\ pc = "loop"
    /\ processed_files # {}
    /\ Len(files_to_process) < Len(all_dat_files)

\* ---------------------------------------------------------- parser claims
\* The number of rom elements of the games before game g.
RECURSIVE RomsBefore(_, _)
RomsBefore(games, g) ==
    IF g <= 1 THEN 0
    ELSE RomsBefore(games, g - 1) + Len(games[g - 1].roms)

\* s is the part of the file name before its first " - " (the whole name
\* when it has none).
IsCollectionName(s, name) ==
    /\ Len(s) <= Len(name)
    /\ s = SubSeq(name, 1, Len(s))
    /\ \A i \in 1..Len(s) : s[i] # " - "
    /\ Len(s) < Len(name) => name[Len(s) + 1] = " - "

WellFormedXml == file.kind = "xml" /\ file.well_formed /\ file.opens

\* C21: parse_dat_file on a well-formed XML file returns one Record per rom
\* element, N x M of them for N games of M roms each and none for a game
\* without roms, in document order, each with the base name of the file,
\* the part of the name before the first " - ", and the name of the game
\* that owns the rom.
C21_XmlRecords ==
    (ppc = "returned" /\ WellFormedXml) =>
        LET games == file.games
            name == file_path[Len(file_path)]
        IN  /\ ~parsed.raised
            /\ Len(parsed.rows) = RomsBefore(games, Len(games) + 1)
            /\ \A m \in 0..MaxRoms :
                   (\A g \in 1..Len(games) : Len(games[g].roms) = m)
                       => Len(parsed.rows) = Len(games) * m
            /\ \A g \in 1..Len(games) : \A r \in 1..Len(games[g].roms) :
                   LET row == parsed.rows[RomsBefore(games, g) + r]
                   IN  /\ row.dat_filename = PyStr(name)
                       /\ row.platform.type = "str"
                       /\ IsCollectionName(row.platform.v, name)
                       /\ row.game_name = games[g].name
                       /\ row.rom_name = games[g].roms[r].name

\* A file named "Commodore 64 - Games - T.dat" with a game without roms
\* followed by a game with two roms has been parsed into two Records.
C21_Witness ==
    /\ ppc = "returned" /\ WellFormedXml
    /\ basename(file_path) = <<"Commodore 64", " - ", "Games", " - ", "T.dat">>
    /\ Len(file.games) = 2
    /\ Len(file.games[1].roms) = 0 /\ Len(file.games[2].roms) = 2
    /\ Len(parsed.rows) = 2
    /\ parsed.rows[1].platform = PyStr(<<"Commodore 64">>)

IsZero(v) == v = PyInt(0) \/ v = PyStr(<<"0">>)

\* C22: in the Records parse_dat_file returns for a file of either format,
\* a rom without status has status "good", a rom without size has size 0,
\* and a game without description has its name as description.
C22_MissingFieldDefaults ==
    (ppc = "returned" /\ ~parsed.raised) =>
        /\ WellFormedXml =>
               \A g \in 1..Len(file.games) :
                   \A r \in 1..Len(file.games[g].roms) :
                       LET rom == file.games[g].roms[r]
                           row == parsed.rows[RomsBefore(file.games, g) + r]
                       IN  /\ "status" \notin DOMAIN rom
                                  => row.status = PyStr(<<"good">>)
                           /\ "size" \notin DOMAIN rom => IsZero(row.size)
                           /\ file.games[g].description = PyNone
                                  => row.description = row.game_name
        /\ (file.kind = "cmp" /\ is_cmp_file(file)) =>
               \A n \in 1..Len(parsed.rows) :
                   LET row == parsed.rows[n]
                   IN  /\ row.status = PyStr(<<"good">>)
                       /\ (/\ file.shape.romv = "no_size"
                           /\ row.rom_name.v = <<row.game_name.v[1], RomNames[1]>>)
                              => IsZero(row.size)
                       /\ file.shape.descv = "none"
                              => row.description = row.game_name

\* The call was the legacy parser's, on a file it could read.
LegacyParsed ==
    ppc = "returned" /\ file.kind = "cmp" /\ is_cmp_file(file) /\ file.opens

\* What stands between the parentheses of game g as the file was written.
WrittenBlock(g) ==
    LET s == file.shape
        w == CmpGame(g, s.ms[g], s.romv, s.descv, TRUE)
    IN  SubSeq(w, 4, Len(w) - 2)

\* The first rom of a game has no usable name in these variants.
FirstRomNamed(romv) == romv \notin {"no_name", "paren_name"}

ParensDescription(g) ==
    PyStr(<<CmpGameNames[g], "(", "1986", "(", "v2", ")", ")",
            "(", "Firebird", ")">>)

\* C23: when the description of a game block holds nested parentheses, the
\* balanced scan ends the block at the parenthesis that closes the anchor:
\* the extracted block is the whole block as written, so the description
\* is complete and the roms that follow it give their Records.
C23_BalancedBlock ==
    (LegacyParsed /\ file.shape.descv = "parens") =>
        \A g \in 1..Len(file.shape.ms) :
            g # file.shape.trunc =>
                /\ \E b \in 1..Len(game_blocks(file.text)) :
                       game_blocks(file.text)[b] = WrittenBlock(g)
                /\ \A r \in 1..file.shape.ms[g] :
                       (r > 1 \/ FirstRomNamed(file.shape.romv)) =>
                           \E n \in 1..Len(parsed.rows) :
                               /\ parsed.rows[n].rom_name
                                      = PyStr(<<CmpGameNames[g], RomNames[r]>>)
                               /\ parsed.rows[n].description = ParensDescription(g)

\* A game whose description holds nested parentheses, followed by two roms,
\* has given two Records with the whole description.
C23_Witness ==
    /\ LegacyParsed
    /\ file.shape = [ms |-> <<2>>, trunc |-> 0, romv |-> "full", descv |-> "parens"]
    /\ Len(parsed.rows) = 2
    /\ parsed.rows[2].description = ParensDescription(1)
    /\ parsed.rows[2].rom_name = PyStr(<<"Elite", "b.tap">>)

\* C26: an anchor of the legacy parser whose scan reaches the end of the
\* file is discarded and gives no Record, and the call does not fail: every
\* balanced game block of the same file is extracted and gives a Record for
\* each of its named roms.
C26_TruncatedBlockSkipped ==
    (LegacyParsed /\ file.shape.trunc \in 1..Len(file.shape.ms)) =>
        /\ ~parsed.raised
        /\ \A n \in 1..Len(parsed.rows) :
               parsed.rows[n].game_name # PyStr(<<CmpGameNames[file.shape.trunc]>>)
        /\ \A g \in 1..Len(file.shape.ms) :
               g # file.shape.trunc =>
                   /\ \E b \in 1..Len(game_blocks(file.text)) :
                          game_blocks(file.text)[b] = WrittenBlock(g)
                   /\ \A r \in 1..file.shape.ms[g] :
                          (r > 1 \/ FirstRomNamed(file.shape.romv)) =>
                              \E n \in 1..Len(parsed.rows) :
                                  /\ parsed.rows[n].game_name
                                         = PyStr(<<CmpGameNames[g]>>)
                                  /\ parsed.rows[n].rom_name
                                         = PyStr(<<CmpGameNames[g], RomNames[r]>>)

\* The first game of a file is truncated and the second, with two roms, is
\* balanced: the call returned the two Records of the second game.
C26_Witness ==
    /\ LegacyParsed
    /\ file.shape = [ms |-> <<1, 2>>, trunc |-> 1, romv |-> "full", descv |-> "plain"]
    /\ ~parsed.raised
    /\ Len(parsed.rows) = 2
    /\ parsed.rows[1].game_name = PyStr(<<"Paradroid">>)
    /\ parsed.rows[2].game_name = PyStr(<<"Paradroid">>)

\* The quoted names of the roms of game g that have a name attribute, as
\* the file was written, in the order of the rom blocks.
WrittenRomNames(g) ==
    LET s == file.shape
        named == SelectSeq([r \in 1..s.ms[g] |-> r],
                           LAMBDA r : r > 1 \/ s.romv # "no_name")
    IN  [k \in 1..Len(named) |->
            LET w == CmpRomName(g, named[k], IF named[k] = 1 THEN s.romv ELSE "full")
            IN  PyStr(SubSeq(w, 2, Len(w) - 1))]

\* The rom names of the Records of game g, in the order of the Records.
RecordedRomNames(g) ==
    LET of_g == SelectSeq(parsed.rows,
                          LAMBDA row : row.game_name = PyStr(<<CmpGameNames[g]>>))
    IN  [k \in 1..Len(of_g) |-> of_g[k].rom_name]

\* C27: for every extracted game block the legacy parser gives exactly one
\* Record for each rom block that has a name attribute, with the whole
\* quoted name of that rom, none for a rom block without name, in the order
\* of the rom blocks.
C27_OneRecordPerNamedRom ==
    LegacyParsed =>
        \A g \in 1..Len(file.shape.ms) :
            g # file.shape.trunc => RecordedRomNames(g) = WrittenRomNames(g)

\* C28: a legacy file that cannot be opened or read when it is parsed makes
\* the call of parse_dat_file raise, which is what the loops count in
\* error_count; it does not return an empty list as a file without Records
\* does.
C28_UnreadableLegacyFails ==
    (ppc = "returned" /\ file.kind = "cmp" /\ ~file.opens) => parsed.raised

\* ----------------------------------------------------------- flush claims
\* The control points inside a flush: of main's flush_buffer ("insert",
\* "mark") and of ImportSession._flush_buffer ("flush", "drain").
InFlush == pc \in {"insert", "mark", "flush", "drain"}

BufferNames == {buffer[i].dat_filename : i \in 1..Len(buffer)}

BufferStored == \A i \in 1..Len(buffer) : roms'[buffer[i]] > 0

SameFile(r1, r2) ==
    r1.dat_filename = r2.dat_filename /\ r1.system = r2.system

\* The rows of a file stand in the buffer in source order, next to each
\* other and all together, never with a row of another file between them.
BufferContiguous ==
    /\ \A i, j \in 1..Len(buffer) :
           (i < j /\ SameFile(buffer[i], buffer[j])) =>
               /\ buffer[i].rom < buffer[j].rom
               /\ \A k \in i..j : SameFile(buffer[i], buffer[k])
    /\ \A p \in Files :
           (\E i \in 1..Len(buffer) : buffer[i] \in RowsOf(p)) =>
               \A r \in RowsOf(p) : \E i \in 1..Len(buffer) : buffer[i] = r

\* C25: the Records of one file enter the buffer in source order and
\* contiguously, and a batched insert that succeeds writes all Records of a
\* file or none of them: a file is never split across two batches.
C25_FileInOneBatch ==
    [][ /\ BufferContiguous'
        /\ (InFlush /\ roms' # roms /\ failures' = failures) =>
               \A p \in Files :
                   \/ \A r \in RowsOf(p) : roms'[r] = roms[r] + 1
                   \/ \A r \in RowsOf(p) : roms'[r] = roms[r]
      ]_vars

\* A pool run with batch size 3: a file of two rows and then a file of one
\* row were buffered, and one insert wrote the three rows.
C25_Witness ==
    /\ args_workers = 2 /\ args_batch_size = 3
    /\ pc = "loop" /\ buffer = << >> /\ total_roms = 3
    /\ \E p, q \in Files :
           /\ p # q
           /\ Cardinality(RowsOf(p)) = 2 /\ Cardinality(RowsOf(q)) = 1
           /\ \A r \in RowsOf(p) \cup RowsOf(q) : roms[r] = 1

\* C30: total_roms counts what the store accepted: it grows only by the
\* length of a batch whose write succeeded, and every batch whose batched
\* insert succeeded is counted when the flush is left (unless the run is
\* interrupted there).
C30_TotalCountsAccepted ==
    [][ /\ (InFlush /\ total_roms' # total_roms)
               => /\ total_roms' = total_roms + Len(buffer)
                  /\ BufferStored
        /\ (pc = "mark" /\ pc' # "mark" /\ result' # "interrupted")
               => total_roms' = total_roms + Len(buffer)
        /\ (pc \in {"flush", "drain"} /\ roms' # roms)
               => total_roms' = total_roms + Len(buffer)
      ]_vars

\* C31: within a single run no Record is written to the store more than
\* once, also when a flush failed and a later flush writes the retained
\* buffer: in the first run over a new store no row is stored twice.
C31_NoRecordTwice ==
    runs <= 1 => \A r \in RowUniverse : roms[r] <= 1

\* --------------------------------------------------------- session claims
HasNotEnoughSpace(msg) == Contains(lower(msg), <<"not", "enough", "space">>)

Consumed == {p \in Files : status[p] = "consumed"}
Started == {p \in Files : status[p] \notin {"queued", "skipped", "cancelled"}}

\* C3: when the insert of a flush raises a message containing "not enough
\* space", the session stops: the step marks no file as committed and leaves
\* the store as it is, and from then on no queued item is started or
\* consumed and the store is not written again (no final drain either).
C3_FatalFlushAborts ==
    /\ [][(pc \in {"flush", "drain"} /\ failures' = failures + 1
              /\ HasNotEnoughSpace(caught'))
             => /\ pc' \in {"shutdown", "returned"}
                /\ result' # "done"
                /\ UNCHANGED << roms, processed_files, total_roms >>]_vars
    /\ [][(pc \in {"shutdown", "returned"})
             => /\ pc' \in {"shutdown", "returned"}
                /\ Started' = Started
                /\ Consumed' = Consumed
                /\ UNCHANGED << roms, processed_files, buffer, total_roms,
                                error_count >>]_vars

\* C3 witness: a flush failed with "not enough space" while files were still
\* queued and rows were still buffered; the session is over.
C3_Witness ==
    /\ pc = "returned"
    /\ result = "aborted"
    /\ HasNotEnoughSpace(caught)
    /\ buffer # << >>
    /\ \E p \in Files : status[p] = "cancelled"

\* C4: a run in which the fatal-error test fired, or whose final drain
\* failed, does not return normally: the pair (total_records, error_count)
\* is not what such a run gives its caller.
C4_PairOnlyWhenDone ==
    returned = "pair" => result \notin {"aborted", "critical"}

RECURSIVE SumRows(_)
SumRows(S) == IF S = {} THEN 0
              ELSE LET p == CHOOSE q \in S : TRUE
                   IN Len(parse(p).rows) + SumRows(S \ {p})

\* C14: when a run is done the buffer is empty, every row of every parsed
\* work item is in the store, and total_records is the number of rows the
\* parsed work items produced: what was left below the batch size went out
\* in the final flush.
C14_FinalDrain ==
    (result = "done")
        => /\ buffer = << >>
           /\ total_roms = SumRows(Range(files_to_process))
           /\ \A p \in Range(files_to_process) : AllStored(p)

\* C14 witness: a run that is done after a final flush of fewer rows than
\* the batch size.
C14_Witness ==
    /\ pc = "returned"
    /\ result = "done"
    /\ final
    /\ total_roms > 0
    /\ total_roms < args_batch_size

\* C15: between two results, the consumer's buffer holds fewer rows than the
\* batch size: a buffer that reached the batch size was flushed before the
\* rows of another file are appended.
C15_BufferBelowThreshold ==
    (pc = "loop") => Len(buffer) < args_batch_size

\* C16: a run ended by an interruption that arrived outside a flush (no
\* threshold flush and no final drain was under way) has written the rows it
\* had buffered: its buffer is empty when it returns.
C16_InterruptFlushes ==
    (/\ pc = "returned"
     /\ result = "interrupted"
     /\ ~final
     /\ \A p \in Files : status[p] # "taken")
        => buffer = << >>

\* C17: once the fatal test has fired, no submitted file is left to be
\* started, and the session is at its end: it does not stay inside the pool
\* while parses already started are still running.
C17_AbortDoesNotWait ==
    (result = "aborted") => (Queued = {} /\ pc = "returned")

\* C18: the progress total is the size of all known files, and at every
\* point of a run without storage failure the progress is the size of the
\* files left out of the work list plus the size of every work item handled
\* so far, parsed or failed; so it is the total when the run is done.
C18_ProgressAccounts ==
    (pc # "new" /\ failures = 0)
        => /\ pbar_total = SumSizes(Files)
           /\ pbar_n = (pbar_total - SumSizes(Range(files_to_process)))
                           + SumSizes(Consumed)
           /\ (result = "done" => pbar_n = pbar_total)

\* C19: a session whose work list is empty never writes to the store (no
\* threshold flush, no final drain, no row, no committed name), keeps both
\* counters at 0 and returns the pair.
C19_EmptyWorkList ==
    (files_to_process = << >>)
        => /\ roms = NoRoms
           /\ processed_files = {}
           /\ pc \notin {"flush", "drain"}
           /\ ~final
           /\ total_roms = 0
           /\ error_count = 0
           /\ (pc = "returned" => returned = "pair")

\* C19 witness: a run over the empty work list that is done.
C19_Witness ==
    /\ files_to_process = << >>
    /\ pc = "returned"
    /\ result = "done"
    /\ returned = "pair"

\* C20: both counters are 0 when the session is constructed, and no step of
\* a run makes either of them smaller.
C20_CountersMonotone ==
    /\ total_roms = 0
    /\ error_count = 0
    /\ [][total_roms' >= total_roms /\ error_count' >= error_count]_vars

\* C20 witness: a run that is over after a stored batch, a failed flush and
\* a counted error.
C20_Witness ==
    /\ pc = "returned"
    /\ total_roms > 0
    /\ error_count > 0
    /\ failures > 0

\* C29: under fair scheduling every run of ImportSession ends: run returns,
\* with the session DONE or ended abnormally (aborted by a fatal error, by a
\* failing final flush or by an interrupt), in the serial loop and in the
\* pool; and once the fatal-error predicate has shut the pool down, run
\* returns with the session aborted.
Ended ==
    pc = "returned" /\ result \in {"done", "aborted", "critical", "interrupted"}

C29_RunTerminates ==
    /\ <>Ended
    /\ (pc = "shutdown") ~> (pc = "returned" /\ result = "aborted")

\* A pool run has returned after a fatal error: queued items were cancelled
\* and a parse that was running at that time has finished unconsumed.
C29_Witness ==
    /\ pc = "returned" /\ result = "aborted"
    /\ args_workers = 2
    /\ \E p \in Files : status[p] = "cancelled"
    /\ \E p \in Files : status[p] = "parsed"

\* C32: whenever ImportSession.run has returned, after normal completion,
\* a fatal error or an interruption, stop_monitor is set, the monitor thread
\* has ended, and it has not refreshed the progress bar after the return.
C32_MonitorStopped ==
    pc = "returned" =>
        /\ stop_monitor
        /\ monitor = "ended"
        /\ refreshed # "returned"

\* C8: a step of a pool thread (a file starts or finishes parsing) changes
\* neither the store nor the buffer nor the counters; the store is written
\* only by the consumer, in a flush, and not in a step of a pool thread.
C8_OnlyConsumerWrites ==
    /\ [][(\E p \in Files : /\ status'[p] # status[p]
                            /\ status'[p] \in {"running", "parsed"})
             => UNCHANGED << roms, processed_files, buffer, total_roms,
                             error_count, log_count, pbar_n >>]_vars
    /\ [][(roms' # roms)
             => /\ pc \in {"flush", "drain"}
                /\ Running' = Running
                /\ Parsed' = Parsed]_vars

\* C8 witness: the consumer is inside a flush while a pool thread is parsing.
C8_Witness ==
    /\ args_workers >= 2
    /\ pc = "flush"
    /\ Running # {}

\* The serial loop as a function of the work list: the state after file i
\* and the files behind it, then the final flush.
RECURSIVE SerialLoop(_, _)
SerialLoop(i, st) ==
    IF i > Len(files_to_process)
    THEN [st EXCEPT !.roms = insert_batch(st.roms, st.buffer),
                    !.total = st.total + Len(st.buffer),
                    !.buffer = << >>]
    ELSE LET p == files_to_process[i]
             data == parse(p)
             b == st.buffer \o data.rows
         IN  IF data.raised
             THEN SerialLoop(i + 1, [st EXCEPT !.errors = st.errors + 1])
             ELSE IF Len(b) > 0 /\ Len(b) >= args_batch_size /\ data.rows # << >>
             THEN SerialLoop(i + 1,
                      [st EXCEPT !.roms = insert_batch(st.roms, b),
                                 !.total = st.total + Len(b),
                                 !.buffer = << >>,
                                 !.pbar = st.pbar + getsize(p)])
             ELSE SerialLoop(i + 1,
                      [st EXCEPT !.buffer = b,
                                 !.pbar = st.pbar + getsize(p)])

SerialResult ==
    SerialLoop(1, [roms |-> NoRoms, buffer |-> << >>, total |-> 0,
                   errors |-> 0,
                   pbar |-> SumSizes(Files)
                                - SumSizes(Range(files_to_process))])

\* C9: a session that is done, serial or pool, in whatever order the pool
\* completed, has the counters, the stored rows and the progress of the
\* serial loop over the same work list (no storage failure).
C9_PoolEqualsSerial ==
    (pc = "returned" /\ result = "done" /\ failures = 0)
        => /\ total_roms = SerialResult.total
           /\ error_count = SerialResult.errors
           /\ roms = SerialResult.roms
           /\ pbar_n = SerialResult.pbar

\* C9 witness: a pool run over several files that is done, with a failed
\* file and stored rows.
C9_Witness ==
    /\ pc = "returned"
    /\ result = "done"
    /\ failures = 0
    /\ args_workers >= 2
    /\ Len(files_to_process) >= 2
    /\ error_count > 0
    /\ total_roms > 0

====
